---- MODULE Spec2Model ----
(***************************************************************************)
(* ActiveSticky (StickyNote.py): the native window integration and the     *)
(* session lifecycle.  Four specifications share this module:              *)
(*   SpecStore  load_state / save_state / delete_state on the state file   *)
(*   SpecStyle  Sticky._apply_click_through on the extended-style bitmask  *)
(*   SpecGeom   Sticky._apply_initial_geometry_safe on saved rectangles    *)
(*   Spec       main(): launches, eviction by title, running instances     *)
(***************************************************************************)
EXTENDS Integers, Sequences, FiniteSets, TLC

VARIABLES
    file,           \* the document at STATE_PATH
    default_state,  \* the module-level dict object DEFAULT_STATE
    ret,            \* what the last load_state() call returned
    op,             \* the last StateStore operation and its argument
    lastSaved,      \* the record of the last save_state still on disk
    ex_style,       \* the GWL_EXSTYLE slot of the window
    styleHist,      \* ex_style at the start and after each application
    applied,        \* the _click_through value of each application
    screens,        \* availableGeometry() of QGuiApplication.screens(), primary first
    gstate,         \* Sticky.state of the instance being constructed
    geometry,       \* the window's geometry()
    rect0,          \* the rectangle Sticky.state held when __init__ began
    nwrites,        \* save_state calls made by _apply_initial_geometry_safe
    gpc,            \* "start" before _apply_initial_geometry_safe, "applied" after
    inst,           \* per process: where main() is, and its Sticky object
    shown,          \* the handles of the visible top-level windows
    closeq,         \* the windows with a WM_CLOSE posted and not yet handled
    hkOwner,        \* per hotkey id: 0 free, -1 another program, else the process
    takenOver,      \* processes sent WM_CLOSE by a launch whose eviction returned true
    writer,         \* the process whose step just wrote or deleted the file, else 0
    screen_geometry,\* geometry() of QGuiApplication.screens(), in the order of screens
    sticky,         \* the Sticky object of a single running instance
    act,            \* the last handler that ran on sticky, and the point it computed
    nact            \* the number of handlers run on sticky so far

storeVars == <<default_state, ret, op, lastSaved>>
styleVars == <<ex_style, styleHist, applied>>
geomVars  == <<screens, gstate, geometry, rect0, nwrites, gpc>>
lifeVars  == <<inst, shown, closeq, hkOwner, takenOver, writer>>
uiVars    == <<screen_geometry, sticky, act, nact>>

(***************************************************************************)
(* Python values.  t is the Python type; s carries a str, n a number       *)
(* (a float is carried in hundredths: 0.85 is 85, 13.0 is 1300).           *)
(***************************************************************************)
PyStr(v)   == [t |-> "str",   s |-> v,  n |-> 0]
PyInt(v)   == [t |-> "int",   s |-> "", n |-> v]
PyFloat(c) == [t |-> "float", s |-> "", n |-> c]
PyBool(b)  == [t |-> "bool",  s |-> "", n |-> IF b THEN 1 ELSE 0]
PyNone     == [t |-> "NoneType", s |-> "", n |-> 0]
PyList     == [t |-> "list",  s |-> "", n |-> 0]

EmptyDict == [k \in {} |-> PyNone]

APP_NAME == "ActiveSticky"

DEFAULT_STATE ==
    [ text            |-> PyStr("Active task: (Ctrl+Alt+T to edit)"),
      x               |-> PyInt(80),
      y               |-> PyInt(80),
      w               |-> PyInt(350),
      h               |-> PyInt(120),
      click_through   |-> PyBool(FALSE),
      opacity         |-> PyFloat(85),
      font_pt         |-> PyFloat(1300),
      theme           |-> PyStr("dark"),
      auto_hide_timer |-> PyInt(0),
      word_wrap       |-> PyBool(TRUE),
      font_family     |-> PyStr("Segoe UI") ]

Fields == DOMAIN DEFAULT_STATE

(***************************************************************************)
(* JSON text, as the tokens json.dumps writes and json.loads reads.  A     *)
(* number literal is "integer" (no fraction: 80) or "real" (13.0, 0.85).   *)
(* An object's members are in o; every other value has no members.         *)
(***************************************************************************)
JScalar(j, s, n) == [j |-> j, s |-> s, n |-> n]

JsonDumpsValue(v) ==
    CASE v.t = "str"      -> JScalar("string", v.s, 0)
      [] v.t = "bool"     -> JScalar(IF v.n = 1 THEN "true" ELSE "false", "", 0)
      [] v.t = "int"      -> JScalar("integer", "", v.n)
      [] v.t = "float"    -> JScalar("real", "", v.n)
      [] v.t = "NoneType" -> JScalar("null", "", 0)
      [] OTHER            -> JScalar("array", "", 0)

JsonLoadsValue(tok) ==
    CASE tok.j = "string"  -> PyStr(tok.s)
      [] tok.j = "true"    -> PyBool(TRUE)
      [] tok.j = "false"   -> PyBool(FALSE)
      [] tok.j = "integer" -> PyInt(tok.n)
      [] tok.j = "real"    -> PyFloat(tok.n)
      [] tok.j = "null"    -> PyNone
      [] OTHER             -> PyList

\* json.dumps(d, indent=2) of a dict with str keys: a JSON object document.
JsonDumps(d) ==
    [top |-> "object", o |-> [k \in DOMAIN d |-> JsonDumpsValue(d[k])]]

\* A document whose top-level value is not an object.
JsonTop(kind) == [top |-> kind, o |-> [k \in {} |-> JScalar("null", "", 0)]]

\* json.loads: the top-level Python type and, for an object, the dict.
JsonLoads(doc) ==
    IF doc.top = "object"
    THEN [t |-> "dict", d |-> [k \in DOMAIN doc.o |-> JsonLoadsValue(doc.o[k])]]
    ELSE [t |-> JsonLoadsValue(JScalar(doc.top, "", 0)).t, d |-> EmptyDict]

(***************************************************************************)
(* The file at STATE_PATH: missing, text that is not JSON, or a document.  *)
(***************************************************************************)
FileMissing == [kind |-> "missing", doc |-> JsonTop("null")]
FileGarbage == [kind |-> "garbage", doc |-> JsonTop("null")]
FileJson(doc) == [kind |-> "json", doc |-> doc]

\* {**a, **b}: the union of two dicts, b winning.
DictMerge(a, b) ==
    [k \in DOMAIN a \cup DOMAIN b |-> IF k \in DOMAIN b THEN b[k] ELSE a[k]]

\* A load_state whose merge lets the defaults win over the loaded values.
LoadState_DefaultsWin(f, dflt) ==
    IF f.kind = "json" /\ JsonLoads(f.doc).t = "dict"
    THEN [rec |-> DictMerge(JsonLoads(f.doc).d, dflt), alias |-> FALSE, raised |-> FALSE]
    ELSE [rec |-> dflt, alias |-> FALSE, raised |-> FALSE]

\* load_state(): read_text raises on a missing file, json.loads on text that
\* is not JSON, and ** on a value that is not a mapping; every exception is
\* caught and answered with DEFAULT_STATE.copy().  alias says the returned
\* object is the DEFAULT_STATE object itself.
LoadState(f, dflt) ==
    IF f.kind = "json" /\ JsonLoads(f.doc).t = "dict"
    THEN [rec |-> DictMerge(dflt, JsonLoads(f.doc).d), alias |-> FALSE, raised |-> FALSE]
    ELSE [rec |-> dflt, alias |-> FALSE, raised |-> FALSE]

\* save_state(d): the file holds json.dumps(d).
SaveState(d) == FileJson(JsonDumps(d))

\* delete_state(): unlink when the file exists.
DeleteState(f) == IF f.kind # "missing" THEN FileMissing ELSE f

(***************************************************************************)
(* Extended window style bits (GWL_EXSTYLE), as non-negative integers.     *)
(***************************************************************************)
WS_EX_LAYERED     == 524288      \* 0x00080000
WS_EX_TRANSPARENT == 32          \* 0x00000020
WS_EX_TOOLWINDOW  == 128         \* 0x00000080
WS_EX_NOACTIVATE  == 134217728   \* 0x08000000

RECURSIVE BitAnd(_, _)
BitAnd(a, b) ==
    IF a = 0 \/ b = 0 THEN 0
    ELSE (a % 2) * (b % 2) + 2 * BitAnd(a \div 2, b \div 2)

RECURSIVE BitOr(_, _)
BitOr(a, b) ==
    IF a = 0 THEN b
    ELSE IF b = 0 THEN a
    ELSE (IF a % 2 = 1 \/ b % 2 = 1 THEN 1 ELSE 0) + 2 * BitOr(a \div 2, b \div 2)

\* a & ~m for non-negative a and m.
BitClear(a, m) == a - BitAnd(a, m)

\* An _apply_click_through that never clears TRANSPARENT | NOACTIVATE.
ApplyClickThrough_NoClear(style, enabled) ==
    LET s1 == BitOr(style, BitOr(WS_EX_LAYERED, WS_EX_TOOLWINDOW))
    IN  IF enabled THEN BitOr(s1, BitOr(WS_EX_TRANSPARENT, WS_EX_NOACTIVATE)) ELSE s1

\* An _apply_click_through that sets NOACTIVATE but toggles only TRANSPARENT off.
ApplyClickThrough_HalfClear(style, enabled) ==
    LET s1 == BitOr(style, BitOr(WS_EX_LAYERED, WS_EX_TOOLWINDOW))
    IN  IF enabled
        THEN BitOr(s1, BitOr(WS_EX_TRANSPARENT, WS_EX_NOACTIVATE))
        ELSE BitClear(s1, WS_EX_TRANSPARENT)

\* Sticky._apply_click_through: the style written back for the style read
\* and the value of self._click_through.
ApplyClickThrough(style, enabled) ==
    LET s1 == BitOr(style, BitOr(WS_EX_LAYERED, WS_EX_TOOLWINDOW))
    IN  IF enabled
        THEN BitOr(s1, BitOr(WS_EX_TRANSPARENT, WS_EX_NOACTIVATE))
        ELSE BitClear(s1, BitOr(WS_EX_TRANSPARENT, WS_EX_NOACTIVATE))

(***************************************************************************)
(* QRect: the corners (x1, y1) and (x2, y2), both inside the rectangle.    *)
(***************************************************************************)
QRect(x, y, w, h) == [x1 |-> x, y1 |-> y, x2 |-> x + w - 1, y2 |-> y + h - 1]
RectLeft(r)   == r.x1
RectTop(r)    == r.y1
RectRight(r)  == r.x2
RectBottom(r) == r.y2
RectWidth(r)  == r.x2 - r.x1 + 1
RectHeight(r) == r.y2 - r.y1 + 1
RectIsNull(r) == r.x2 = r.x1 - 1 /\ r.y2 = r.y1 - 1

\* QRect::intersects.
RectIntersects(a, b) ==
    LET l1 == IF a.x2 - a.x1 + 1 < 0 THEN a.x2 ELSE a.x1
        r1 == IF a.x2 - a.x1 + 1 < 0 THEN a.x1 ELSE a.x2
        l2 == IF b.x2 - b.x1 + 1 < 0 THEN b.x2 ELSE b.x1
        r2 == IF b.x2 - b.x1 + 1 < 0 THEN b.x1 ELSE b.x2
        t1 == IF a.y2 - a.y1 + 1 < 0 THEN a.y2 ELSE a.y1
        b1 == IF a.y2 - a.y1 + 1 < 0 THEN a.y1 ELSE a.y2
        t2 == IF b.y2 - b.y1 + 1 < 0 THEN b.y2 ELSE b.y1
        b2 == IF b.y2 - b.y1 + 1 < 0 THEN b.y1 ELSE b.y2
    IN  /\ ~RectIsNull(a) /\ ~RectIsNull(b)
        /\ ~(l1 > r2 \/ l2 > r1)
        /\ ~(t1 > b2 \/ t2 > b1)

\* Sticky._rect_on_any_screen.
RectOnAnyScreen(rect, scr) ==
    \E i \in 1..Len(scr) : RectIntersects(scr[i], rect)

\* QGuiApplication.primaryScreen().availableGeometry(), or the stand-in
\* rectangle when there is no primary screen.
PrimaryAvailable(scr) == IF Len(scr) > 0 THEN scr[1] ELSE QRect(0, 0, 800, 600)

\* An _apply_initial_geometry_safe that forgets to save the fallback.
ApplyInitialGeometrySafe_NoSave(st, scr) ==
    LET rect == QRect(st.x.n, st.y.n, st.w.n, st.h.n)
        ar   == PrimaryAvailable(scr)
        fb   == [st EXCEPT !.x = PyInt(RectLeft(ar) + 80), !.y = PyInt(RectTop(ar) + 80),
                           !.w = PyInt(350), !.h = PyInt(120)]
    IN  IF ~RectOnAnyScreen(rect, scr)
        THEN [state |-> fb, saved |-> FALSE, geometry |-> QRect(fb.x.n, fb.y.n, fb.w.n, fb.h.n)]
        ELSE [state |-> st, saved |-> FALSE, geometry |-> rect]

\* Sticky._apply_initial_geometry_safe: the new Sticky.state, whether
\* save_state(self.state) was called, and the geometry set on the window.
ApplyInitialGeometrySafe(st, scr) ==
    LET rect == QRect(st.x.n, st.y.n, st.w.n, st.h.n)
        ar   == PrimaryAvailable(scr)
        fb   == [st EXCEPT !.x = PyInt(RectLeft(ar) + 80), !.y = PyInt(RectTop(ar) + 80),
                           !.w = PyInt(350), !.h = PyInt(120)]
    IN  IF ~RectOnAnyScreen(rect, scr)
        THEN [state |-> fb, saved |-> TRUE, geometry |-> QRect(fb.x.n, fb.y.n, fb.w.n, fb.h.n)]
        ELSE [state |-> st, saved |-> FALSE, geometry |-> rect]

StyleIdle ==
    /\ ex_style = 0
    /\ styleHist = <<0>>
    /\ applied = <<>>

GeomIdle ==
    /\ screens = <<QRect(0, 0, 1920, 1080)>>
    /\ gstate = DEFAULT_STATE
    /\ geometry = QRect(0, 0, 0, 0)
    /\ rect0 = QRect(0, 0, 0, 0)
    /\ nwrites = 0
    /\ gpc = "idle"

(***************************************************************************)
(* Processes, windows and hotkeys.                                         *)
(***************************************************************************)
MaxProc  == 2     \* launches of the application
MaxPolls == 2     \* iterations of the eviction poll before wait_ms has elapsed

Procs == 1..MaxProc

HK_EDIT     == 1
HK_CLICK    == 2
HK_LEFT     == 3
HK_RIGHT    == 4
HK_UP       == 5
HK_DOWN     == 6
HK_MINIMIZE == 7
HK_OPACITY_UP   == 8
HK_OPACITY_DOWN == 9

HotkeyIds ==
    {HK_EDIT, HK_CLICK, HK_LEFT, HK_RIGHT, HK_UP, HK_DOWN, HK_MINIMIZE,
     HK_OPACITY_UP, HK_OPACITY_DOWN}

\* Window handles: process p's Sticky window is p; 101 and 103 belong to
\* other programs (101 has a title that contains APP_NAME, 103 has no title).
ForeignWindows == {101, 103}
Hwnds == Procs \cup ForeignWindows

\* GetWindowTextW: a Sticky window carries setWindowTitle(APP_NAME).
Title(h) ==
    CASE h = 101 -> "About ActiveSticky"
      [] h = 103 -> ""
      [] OTHER   -> APP_NAME

\* _enum_windows_titles(): (hwnd, title) of every visible window with a
\* non-empty title.
EnumWindowsTitles(sh) == { <<h, Title(h)>> : h \in { v \in sh : Title(v) # "" } }

\* close_existing_instance_by_title, lines 103-106: the windows sent WM_CLOSE.
CloseTargets(sh, title) == { e[1] : e \in { m \in EnumWindowsTitles(sh) : m[2] = title } }

\* close_existing_instance_by_title, line 111: still_there.
StillThere(sh, title) == \E e \in EnumWindowsTitles(sh) : e[2] = title

\* The extended style Qt gives a frameless, translucent, stay-on-top tool
\* window (LAYERED | TOOLWINDOW | TOPMOST) before the code touches it.
QtInitialStyle == BitOr(BitOr(WS_EX_LAYERED, WS_EX_TOOLWINDOW), 8)

NoInst ==
    [ pc |-> "idle", found |-> FALSE, start_fresh |-> FALSE,
      state |-> DEFAULT_STATE, click |-> FALSE, opacity |-> 85,
      label |-> "", geometry |-> QRect(0, 0, 0, 0), wstyle |-> 0,
      polls |-> 0, posted |-> {}, enum0 |-> {},
      responded |-> FALSE, leftAtReturn |-> {}, hkFailed |-> {},
      didDelete |-> FALSE, fileAtCreate |-> FileMissing ]

\* Sticky._save_state: the dict passed to save_state.
SaveStateRecord(i, click) ==
    [ i.state EXCEPT !.text = PyStr(i.label),
                     !.x = PyInt(RectLeft(i.geometry)), !.y = PyInt(RectTop(i.geometry)),
                     !.w = PyInt(RectWidth(i.geometry)), !.h = PyInt(RectHeight(i.geometry)),
                     !.click_through = PyBool(click),
                     !.opacity = PyFloat(i.opacity),
                     !.font_pt = i.state.font_pt ]

\* A register_hotkeys that gives up at the first refusal.
RegisterHotkeysOwners_StopAtFirst(own, p) ==
    [k \in HotkeyIds |-> IF own[k] = 0 /\ \A j \in HotkeyIds : j < k => own[j] = 0
                         THEN p ELSE own[k]]

\* register_hotkeys: RegisterHotKey succeeds for the ids nobody owns.
RegisterHotkeysOwners(own, p) == [k \in HotkeyIds |-> IF own[k] = 0 THEN p ELSE own[k]]
RegisterHotkeysFailed(own) == { k \in HotkeyIds : own[k] # 0 }

\* An unregister_hotkeys that releases the nine combinations whoever owns
\* them.
UnregisterHotkeys_AnyOwner(own, p) == [k \in HotkeyIds |-> 0]

\* unregister_hotkeys: UnregisterHotKey(hwnd, id) for id in range(1, 10).
UnregisterHotkeys(own, p) == [k \in HotkeyIds |-> IF own[k] = p THEN 0 ELSE own[k]]

LifeIdle ==
    /\ inst = [p \in Procs |-> NoInst]
    /\ shown = {}
    /\ closeq = {}
    /\ hkOwner = [k \in HotkeyIds |-> 0]
    /\ takenOver = {}
    /\ writer = 0

(***************************************************************************)
(* One running instance: screens, the clamps of the geometry handlers and  *)
(* the records the handlers pass to save_state.                            *)
(***************************************************************************)
Max2(a, b) == IF a >= b THEN a ELSE b
Min2(a, b) == IF a <= b THEN a ELSE b

\* QRect::contains(QPoint) for a rectangle of positive size.
RectContainsPoint(r, pt) ==
    /\ r.x1 <= pt[1] /\ pt[1] <= r.x2
    /\ r.y1 <= pt[2] /\ pt[2] <= r.y2

\* QGuiApplication.screenAt(point): the index of the first screen whose
\* geometry() contains the point, 0 for None.
ScreenAt(pt, geos) ==
    LET hits == { i \in 1..Len(geos) : RectContainsPoint(geos[i], pt) }
    IN  IF hits = {} THEN 0 ELSE CHOOSE i \in hits : \A j \in hits : i <= j

\* Sticky.mouseMoveEvent, lines 405-412: the point handed to self.move().
MouseMoveClamp(new_pos, w, h, geos, avs) ==
    LET s == ScreenAt(new_pos, geos)
    IN  IF s = 0 THEN new_pos
        ELSE LET sr == avs[s]
                 wr == QRect(new_pos[1], new_pos[2], w, h)
                 xa == IF RectRight(wr) > RectRight(sr) THEN RectRight(sr) - w ELSE new_pos[1]
                 ya == IF RectBottom(wr) > RectBottom(sr) THEN RectBottom(sr) - h ELSE new_pos[2]
                 xb == IF RectLeft(wr) < RectLeft(sr) THEN RectLeft(sr) ELSE xa
                 yb == IF RectTop(wr) < RectTop(sr) THEN RectTop(sr) ELSE ya
             IN  <<xb, yb>>

\* Sticky.move_window, lines 562-568: the point handed to self.move().
MoveWindowClamp(current, dx, dy, geos, avs) ==
    LET new_pos == <<RectLeft(current) + dx, RectTop(current) + dy>>
        s == ScreenAt(new_pos, geos)
    IN  IF s = 0 THEN new_pos
        ELSE LET sr == avs[s]
             IN  << Max2(RectLeft(sr), Min2(RectRight(sr) - RectWidth(current), new_pos[1])),
                    Max2(RectTop(sr),  Min2(RectBottom(sr) - RectHeight(current), new_pos[2])) >>

\* Sticky._apply_on_screen: the geometry it leaves.
ApplyOnScreen(r, geos, avs) ==
    LET s == ScreenAt(<<RectLeft(r), RectTop(r)>>, geos)
    IN  IF s = 0 THEN r
        ELSE LET sr == avs[s]
                 nx == Min2(Max2(RectLeft(sr), RectLeft(r)), RectRight(sr) - RectWidth(r))
                 ny == Min2(Max2(RectTop(sr),  RectTop(r)),  RectBottom(sr) - RectHeight(r))
             IN  QRect(nx, ny, RectWidth(r), RectHeight(r))

\* Sticky._resize_by, lines 594-597: the geometry handed to setGeometry.
ResizeBy(current, dw, dh) ==
    QRect(RectLeft(current), RectTop(current),
          Max2(200, RectWidth(current) + dw), Max2(80, RectHeight(current) + dh))

\* Sticky._resize_to_default, lines 602-603.
ResizeToDefault(current) == QRect(RectLeft(current), RectTop(current), 350, 120)

\* Sticky.adjust_opacity, line 554, in hundredths.
NewOpacity(opacity, delta) == Max2(10, Min2(100, opacity + delta))

\* A _save_geometry that saves the size only.
SaveGeometryRecord_SizeOnly(i) ==
    [ i.state EXCEPT !.w = PyInt(RectWidth(i.geometry)), !.h = PyInt(RectHeight(i.geometry)) ]

\* Sticky._save_geometry: the dict passed to save_state.
SaveGeometryRecord(i) ==
    [ i.state EXCEPT !.x = PyInt(RectLeft(i.geometry)), !.y = PyInt(RectTop(i.geometry)),
                     !.w = PyInt(RectWidth(i.geometry)), !.h = PyInt(RectHeight(i.geometry)) ]

\* str.strip() on the texts typed into the editor.
Strip(s) ==
    CASE s = "   "    -> ""
      [] s = " memo " -> "memo"
      [] OTHER        -> s

\* Sticky.commit_edit, line 520: editor.toPlainText().strip() or "Active task".
CommitText(s) == IF Strip(s) = "" THEN "Active task" ELSE Strip(s)

NoDrag == [set |-> FALSE, cursor |-> <<0, 0>>, topLeft |-> <<0, 0>>]

NoSticky ==
    [ pc |-> "idle", state |-> DEFAULT_STATE, click |-> FALSE, opacity |-> 85,
      label |-> "", editor |-> "", is_editing |-> FALSE, drag_origin |-> NoDrag,
      geometry |-> QRect(0, 0, 0, 0), wstyle |-> 0, visible |-> FALSE,
      window_opacity |-> 85 ]

NoAct == [name |-> "none", pos |-> <<0, 0>>, click0 |-> FALSE, toggles |-> 0]

UiIdle ==
    /\ screen_geometry = <<QRect(0, 0, 1920, 1080)>>
    /\ sticky = NoSticky
    /\ act = NoAct
    /\ nact = 0

(***************************************************************************)
(* SpecStore: the three StateStore functions applied to bounded inputs.    *)
(***************************************************************************)
Restrict(d, D) == [k \in D |-> d[k]]

\* Records a caller may pass to save_state: whole states and partial dicts.
FullStates ==
    { [DEFAULT_STATE EXCEPT !.x = PyInt(vx), !.text = PyStr(vt),
                            !.click_through = PyBool(vc), !.opacity = PyFloat(vo)] :
        vx \in {80, -5000}, vt \in {"Active task", "note"},
        vc \in BOOLEAN, vo \in {85, 10} }

SaveDomains == { Fields, {"x", "text"}, {"opacity", "click_through"}, {} }

SaveInputs == { Restrict(d, D) : d \in FullStates, D \in SaveDomains }

\* What a hand edit can leave at STATE_PATH.
EditedFiles ==
    { FileGarbage }
    \cup { FileJson(JsonTop(k)) : k \in {"array", "string", "integer", "null", "true"} }
    \cup { FileJson([top |-> "object", o |-> o]) :
             o \in { [x |-> JScalar("string", "abc", 0)],
                     [opacity |-> JScalar("string", "high", 0)],
                     [click_through |-> JScalar("integer", "", 1)],
                     [x |-> JScalar("integer", "", 200)],
                     [extra |-> JScalar("integer", "", 1)],
                     [k \in {} |-> JScalar("null", "", 0)] } }

NoOp(name) == [name |-> name, arg |-> EmptyDict]
NoSaved == [valid |-> FALSE, rec |-> EmptyDict]

\* The variables of a specification that does not use them.
StoreIdle ==
    /\ default_state = DEFAULT_STATE
    /\ ret = [rec |-> EmptyDict, alias |-> FALSE, raised |-> FALSE]
    /\ op = NoOp("init")
    /\ lastSaved = NoSaved

StoreInit ==
    /\ file \in {FileMissing} \cup EditedFiles
    /\ StoreIdle
    /\ StyleIdle /\ GeomIdle /\ LifeIdle /\ UiIdle

\* A call of save_state(d).
StoreSave ==
    \E d \in SaveInputs :
        /\ file' = SaveState(d)
        /\ op' = [name |-> "save", arg |-> d]
        /\ lastSaved' = [valid |-> TRUE, rec |-> d]
        /\ UNCHANGED <<default_state, ret>>

\* A call of load_state().
StoreLoad ==
    /\ ret' = LoadState(file, default_state)
    /\ op' = NoOp("load")
    /\ UNCHANGED <<file, default_state, lastSaved>>

\* A call of delete_state().
StoreDelete ==
    /\ file' = DeleteState(file)
    /\ op' = NoOp("delete")
    /\ lastSaved' = NoSaved
    /\ UNCHANGED <<default_state, ret>>

\* The caller mutates the record load_state returned (self.state[...] = v,
\* self.state.update(...)); a record that is the DEFAULT_STATE object itself
\* takes DEFAULT_STATE with it.
StoreMutate ==
    /\ op.name = "load"
    /\ \E k \in {"x", "theme"} :
         LET v == IF k = "x" THEN PyInt(7) ELSE PyStr("light")
             r == [j \in DOMAIN ret.rec \cup {k} |-> IF j = k THEN v ELSE ret.rec[j]]
         IN  /\ ret' = [ret EXCEPT !.rec = r]
             /\ default_state' = IF ret.alias THEN r ELSE default_state
    /\ op' = NoOp("mutate")
    /\ UNCHANGED <<file, lastSaved>>

\* The user edits or replaces the file by hand.
StoreHandEdit ==
    /\ file' \in EditedFiles
    /\ op' = NoOp("edit")
    /\ lastSaved' = NoSaved
    /\ UNCHANGED <<default_state, ret>>

StoreNext ==
    /\ StoreSave \/ StoreLoad \/ StoreDelete \/ StoreMutate \/ StoreHandEdit
    /\ UNCHANGED <<styleVars, geomVars, lifeVars, uiVars>>

vars == <<file, storeVars, styleVars, geomVars, lifeVars, uiVars>>

SpecStore == StoreInit /\ [][StoreNext]_vars

\* C5: load_state never raises and returns exactly the default record when
\* the file is missing, is not parseable, or holds content of the wrong
\* types (a document that is not an object, or an object with a known field
\* of the wrong type); the default it returns is a copy, so DEFAULT_STATE
\* itself never changes.
TokenType(tok) ==
    CASE tok.j = "string"           -> "str"
      [] tok.j \in {"true", "false"} -> "bool"
      [] tok.j = "integer"          -> "int"
      [] tok.j = "real"             -> "float"
      [] OTHER                      -> "other"

WellTyped(k, tok) ==
    \/ TokenType(tok) = DEFAULT_STATE[k].t
    \/ DEFAULT_STATE[k].t = "float" /\ TokenType(tok) = "int"

WrongTypes(f) ==
    /\ f.kind = "json"
    /\ \/ f.doc.top # "object"
       \/ \E k \in DOMAIN f.doc.o \cap Fields : ~WellTyped(k, f.doc.o[k])

C5_LoadFallsBackToDefault ==
    /\ default_state = DEFAULT_STATE
    /\ op.name = "load" =>
         /\ ~ret.raised
         /\ (file.kind \in {"missing", "garbage"} \/ WrongTypes(file)) =>
              (ret.rec = DEFAULT_STATE /\ ~ret.alias)

\* C6: load_state() right after save_state(S) returns a record equal to S on
\* every field S sets, with every other field filled from DEFAULT_STATE.
C6_RoundTrip ==
    (op.name = "load" /\ lastSaved.valid) =>
        LET S == lastSaved.rec
        IN  /\ DOMAIN ret.rec = Fields \cup DOMAIN S
            /\ \A k \in DOMAIN S : ret.rec[k] = S[k]
            /\ \A k \in Fields \ DOMAIN S : ret.rec[k] = DEFAULT_STATE[k]

C6_Witness ==
    /\ op.name = "load" /\ lastSaved.valid
    /\ DOMAIN lastSaved.rec = {"x", "text"}
    /\ lastSaved.rec["x"] = PyInt(-5000)
    /\ ret.rec["x"] = PyInt(-5000)
    /\ ret.rec["opacity"] = PyFloat(85)

(***************************************************************************)
(* SpecStyle: _apply_click_through applied up to MaxApply times to every   *)
(* initial style built from StyleBits.                                     *)
(***************************************************************************)
MaxApply == 3

\* The four flags the code handles and two it never names
\* (WS_EX_TOPMOST 0x8, WS_EX_APPWINDOW 0x40000).
StyleBits ==
    {WS_EX_LAYERED, WS_EX_TRANSPARENT, WS_EX_TOOLWINDOW, WS_EX_NOACTIVATE, 8, 262144}

RECURSIVE SumOf(_)
SumOf(S) == IF S = {} THEN 0 ELSE LET b == CHOOSE e \in S : TRUE IN b + SumOf(S \ {b})

StyleInit ==
    /\ ex_style \in { SumOf(S) : S \in SUBSET StyleBits }
    /\ styleHist = <<ex_style>>
    /\ applied = <<>>
    /\ file = FileMissing
    /\ StoreIdle /\ GeomIdle /\ LifeIdle /\ UiIdle

\* One run of _apply_click_through with self._click_through = e.
StyleApply ==
    /\ Len(applied) < MaxApply
    /\ \E e \in BOOLEAN :
         /\ ex_style' = ApplyClickThrough(ex_style, e)
         /\ applied' = Append(applied, e)
    /\ styleHist' = Append(styleHist, ex_style')
    /\ UNCHANGED <<file, storeVars, geomVars, lifeVars, uiVars>>

StyleNext == StyleApply

SpecStyle == StyleInit /\ [][StyleNext]_vars

\* Whether the single-bit flag f is set in v.
HasFlag(v, f) == (v \div f) % 2 = 1
\* Bits 0..30: every bit a style of this model can hold.
StyleFlags == { 2^k : k \in 0..30 }

\* C7 as stated: enabling and then disabling click-through gives the
\* original bitmask with LAYERED and TOOLWINDOW set and every other bit,
\* TRANSPARENT and NOACTIVATE included, at its original value.
C7_EnableDisableRestoresAll ==
    \A i \in 1..(Len(applied) - 1) :
        (applied[i] /\ ~applied[i + 1]) =>
            \A f \in StyleFlags :
                HasFlag(styleHist[i + 2], f) <=>
                    (f \in {WS_EX_LAYERED, WS_EX_TOOLWINDOW} \/ HasFlag(styleHist[i], f))

\* C7 amended: enabling and then disabling click-through gives the original
\* bitmask with LAYERED and TOOLWINDOW set and TRANSPARENT and NOACTIVATE
\* cleared; every other bit has its original value.
C7_EnableDisableClearsClickBits ==
    \A i \in 1..(Len(applied) - 1) :
        (applied[i] /\ ~applied[i + 1]) =>
            \A f \in StyleFlags :
                HasFlag(styleHist[i + 2], f) <=>
                    \/ f \in {WS_EX_LAYERED, WS_EX_TOOLWINDOW}
                    \/ f \notin {WS_EX_TRANSPARENT, WS_EX_NOACTIVATE} /\ HasFlag(styleHist[i], f)

C7_Witness ==
    \E i \in 1..(Len(applied) - 1) :
        /\ applied[i] /\ ~applied[i + 1]
        /\ HasFlag(styleHist[i], WS_EX_TRANSPARENT)
        /\ HasFlag(styleHist[i], 8)
        /\ ~HasFlag(styleHist[i], WS_EX_LAYERED)
        /\ ~HasFlag(styleHist[i + 2], WS_EX_TRANSPARENT)
        /\ HasFlag(styleHist[i + 2], 8)

\* C8: applying the same enabled value twice gives the style bits of
\* applying it once, and after any application LAYERED and TOOLWINDOW are
\* set while TRANSPARENT and NOACTIVATE are each set iff enabled.
C8_Idempotent ==
    /\ \A i \in 1..Len(applied) :
         /\ HasFlag(styleHist[i + 1], WS_EX_LAYERED)
         /\ HasFlag(styleHist[i + 1], WS_EX_TOOLWINDOW)
         /\ HasFlag(styleHist[i + 1], WS_EX_TRANSPARENT) <=> applied[i]
         /\ HasFlag(styleHist[i + 1], WS_EX_NOACTIVATE) <=> applied[i]
    /\ \A i \in 1..(Len(applied) - 1) :
         applied[i] = applied[i + 1] => styleHist[i + 2] = styleHist[i + 1]

C8_Witness ==
    /\ Len(applied) >= 2
    /\ ~applied[1] /\ ~applied[2]
    /\ HasFlag(styleHist[1], WS_EX_NOACTIVATE)
    /\ styleHist[2] # styleHist[1]
    /\ styleHist[3] = styleHist[2]

(***************************************************************************)
(* SpecGeom: _apply_initial_geometry_safe applied to bounded saved         *)
(* rectangles and monitor sets.                                            *)
(***************************************************************************)
\* Work-areas: a full-HD primary, the same with a 40px bar on top, a full-HD
\* primary at 500% scaling (384x216 logical pixels), and secondaries to the
\* left and right of the primary.
GeomScreens ==
    { <<>>,
      <<QRect(0, 0, 1920, 1080)>>,
      <<QRect(0, 40, 1920, 1040)>>,
      <<QRect(0, 0, 384, 216)>>,
      <<QRect(0, 0, 1920, 1080), QRect(-1920, 0, 1920, 1080)>>,
      <<QRect(0, 0, 1920, 1080), QRect(1920, 0, 1280, 1024)>>,
      <<QRect(0, 0, 384, 216), QRect(384, 0, 1920, 1080)>> }

GeomXs == {-5000, -1920, -350, -349, 0, 80, 383, 384, 1919, 1920, 3199, 3200}
GeomYs == {-5000, -120, -119, 0, 39, 40, 80, 215, 216, 1079, 1080}
GeomSizes == {<<350, 120>>, <<200, 80>>}

GeomInit ==
    /\ screens \in GeomScreens
    /\ \E vx \in GeomXs, vy \in GeomYs, sz \in GeomSizes :
         /\ gstate = [DEFAULT_STATE EXCEPT !.x = PyInt(vx), !.y = PyInt(vy),
                                           !.w = PyInt(sz[1]), !.h = PyInt(sz[2])]
         /\ rect0 = QRect(vx, vy, sz[1], sz[2])
    /\ file = SaveState(gstate)
    /\ geometry = QRect(0, 0, 0, 0)
    /\ nwrites = 0
    /\ gpc = "start"
    /\ StoreIdle /\ StyleIdle /\ LifeIdle /\ UiIdle

\* Sticky.__init__ reaches self._apply_initial_geometry_safe().
GeomApply ==
    /\ gpc = "start"
    /\ LET r == ApplyInitialGeometrySafe(gstate, screens)
       IN  /\ gstate' = r.state
           /\ geometry' = r.geometry
           /\ file' = IF r.saved THEN SaveState(r.state) ELSE file
           /\ nwrites' = IF r.saved THEN nwrites + 1 ELSE nwrites
    /\ gpc' = "applied"
    /\ UNCHANGED <<screens, rect0, storeVars, styleVars, lifeVars, uiVars>>

GeomNext == GeomApply

SpecGeom == GeomInit /\ [][GeomNext]_vars

\* Two rectangles of positive size share a pixel.
Overlaps(a, b) ==
    /\ a.x1 <= b.x2 /\ b.x1 <= a.x2
    /\ a.y1 <= b.y2 /\ b.y1 <= a.y2

Contains(outer, inner) ==
    /\ outer.x1 <= inner.x1 /\ inner.x2 <= outer.x2
    /\ outer.y1 <= inner.y1 /\ inner.y2 <= outer.y2

VisibleOnAnyMonitor(r, scr) == \E i \in 1..Len(scr) : Overlaps(r, scr[i])

RectTuple(r) == <<r.x1, r.y1, r.x2 - r.x1 + 1, r.y2 - r.y1 + 1>>

\* C9: for every saved rectangle and every non-empty monitor set, when the
\* saved rectangle intersects no work-area the fallback rectangle set at
\* startup lies wholly inside some monitor's work-area.
C9_FallbackContained ==
    (gpc = "applied" /\ Len(screens) > 0 /\ ~VisibleOnAnyMonitor(rect0, screens)) =>
        \E i \in 1..Len(screens) : Contains(screens[i], geometry)

\* C10: at startup a saved rectangle that intersects a work-area is applied
\* unchanged and nothing is written; otherwise the window geometry becomes
\* (primary.left + 80, primary.top + 80, 350, 120), that rectangle is
\* written to the persisted state, and the window is not left off-screen.
C10_ValidateGeometry ==
    (gpc = "applied" /\ Len(screens) > 0) =>
        IF VisibleOnAnyMonitor(rect0, screens)
        THEN /\ geometry = rect0
             /\ nwrites = 0
             /\ RectTuple(rect0) = <<gstate.x.n, gstate.y.n, gstate.w.n, gstate.h.n>>
        ELSE /\ RectTuple(geometry) = <<screens[1].x1 + 80, screens[1].y1 + 80, 350, 120>>
             /\ nwrites = 1
             /\ file.kind = "json"
             /\ LET o == file.doc.o
                IN  <<o.x, o.y, o.w, o.h>> =
                        << JScalar("integer", "", screens[1].x1 + 80),
                           JScalar("integer", "", screens[1].y1 + 80),
                           JScalar("integer", "", 350), JScalar("integer", "", 120) >>
             /\ VisibleOnAnyMonitor(geometry, screens)

C10_Witness ==
    /\ gpc = "applied"
    /\ screens = <<QRect(0, 0, 1920, 1080)>>
    /\ RectTuple(rect0) = <<-5000, -5000, 350, 120>>
    /\ RectTuple(geometry) = <<80, 80, 350, 120>>
    /\ nwrites = 1

(***************************************************************************)
(* Spec: launches of main(), one after another, and the instances they     *)
(* leave running.  Every running instance has its own message loop, so     *)
(* steps of different processes interleave freely.                         *)
(***************************************************************************)
\* The file a first launch can find: none, or the one an earlier session
\* left (edited text, click-through on, a position no monitor shows now).
LifeFiles ==
    { FileMissing,
      SaveState([DEFAULT_STATE EXCEPT !.text = PyStr("note"), !.x = PyInt(-5000),
                                      !.y = PyInt(-5000), !.click_through = PyBool(TRUE)]) }

LifeInit ==
    /\ file \in LifeFiles
    /\ screens = <<QRect(0, 0, 1920, 1080)>>
    /\ inst = [p \in Procs |-> NoInst]
    /\ shown = ForeignWindows
    /\ closeq = {}
    /\ hkOwner = [k \in HotkeyIds |-> 0]
    /\ takenOver = {}
    /\ writer = 0
    /\ gstate = DEFAULT_STATE /\ geometry = QRect(0, 0, 0, 0) /\ rect0 = QRect(0, 0, 0, 0)
    /\ nwrites = 0 /\ gpc = "idle"
    /\ StoreIdle /\ StyleIdle /\ UiIdle

Running(p) == inst[p].pc \notin {"idle", "exited"}
Starting(p) == inst[p].pc \in {"poll", "delete", "create", "register"}

LifeFrame == UNCHANGED <<storeVars, styleVars, geomVars, uiVars>>

\* The user starts the program; main() calls close_existing_instance_by_title,
\* which enumerates, posts WM_CLOSE to every match and returns False when
\* there was none.
Launch(p) ==
    /\ inst[p].pc = "idle"
    /\ \A q \in Procs : q < p => inst[q].pc # "idle"
    /\ \A q \in Procs : ~Starting(q)
    /\ LET targets == CloseTargets(shown, APP_NAME)
       IN  /\ inst' = [inst EXCEPT ![p].pc = IF targets = {} THEN "create" ELSE "poll",
                                   ![p].found = FALSE,
                                   ![p].posted = targets,
                                   ![p].enum0 = { h \in shown : Title(h) = APP_NAME },
                                   ![p].polls = MaxPolls]
           /\ closeq' = closeq \cup targets
    /\ writer' = 0
    /\ UNCHANGED <<file, shown, hkOwner, takenOver>>
    /\ LifeFrame

\* A poll loop that sleeps again after an enumeration without a match.
PollCheck_NoBreak(p) ==
    /\ inst[p].pc = "poll"
    /\ inst[p].polls > 0
    /\ inst' = [inst EXCEPT ![p].polls = @ - 1]
    /\ writer' = 0
    /\ UNCHANGED <<file, shown, closeq, hkOwner, takenOver>>
    /\ LifeFrame

\* One iteration of the poll loop while time.time() < end: return True at the
\* first enumeration without a match, else sleep 50 ms.
PollCheck(p) ==
    /\ inst[p].pc = "poll"
    /\ inst[p].polls > 0
    /\ IF ~StillThere(shown, APP_NAME)
       THEN /\ inst' = [inst EXCEPT ![p].pc = "delete", ![p].found = TRUE,
                                    ![p].leftAtReturn = { h \in shown : Title(h) = APP_NAME }]
            /\ takenOver' = takenOver \cup (inst[p].posted \cap Procs)
       ELSE /\ inst' = [inst EXCEPT ![p].polls = @ - 1]
            /\ UNCHANGED takenOver
    /\ writer' = 0
    /\ UNCHANGED <<file, shown, closeq, hkOwner>>
    /\ LifeFrame

\* The loop condition fails: wait_ms has elapsed; return True.
PollTimeout(p) ==
    /\ inst[p].pc = "poll"
    /\ inst[p].polls = 0
    /\ inst' = [inst EXCEPT ![p].pc = "delete", ![p].found = TRUE,
                            ![p].leftAtReturn = { h \in shown : Title(h) = APP_NAME }]
    /\ takenOver' = takenOver \cup (inst[p].posted \cap Procs)
    /\ writer' = 0
    /\ UNCHANGED <<file, shown, closeq, hkOwner>>
    /\ LifeFrame

\* main(): delete_state() after close_existing_instance_by_title returned True.
DeleteStep(p) ==
    /\ inst[p].pc = "delete"
    /\ file' = DeleteState(file)
    /\ writer' = p
    /\ inst' = [inst EXCEPT ![p].pc = "create", ![p].didDelete = TRUE]
    /\ UNCHANGED <<shown, closeq, hkOwner, takenOver>>
    /\ LifeFrame

\* main(): start_fresh = not STATE_PATH.exists(); Sticky(start_fresh);
\* sticky.show().  (What close_existing_instance_by_title saw is forgotten
\* here: the function has returned and nothing reads it again.)
Create(p) ==
    /\ inst[p].pc = "create"
    /\ LET fresh == file.kind = "missing"
           st0   == IF fresh THEN DEFAULT_STATE ELSE LoadState(file, DEFAULT_STATE).rec
           r     == ApplyInitialGeometrySafe(st0, screens)
       IN  /\ inst' = [inst EXCEPT ![p].pc = "register",
                                   ![p].posted = {}, ![p].enum0 = {},
                                   ![p].responded = FALSE, ![p].leftAtReturn = {},
                                   ![p].polls = 0,
                                   ![p].fileAtCreate = file,
                                   ![p].start_fresh = fresh,
                                   ![p].state = r.state,
                                   ![p].click = (st0.click_through.n = 1),
                                   ![p].opacity = st0.opacity.n,
                                   ![p].label = st0.text.s,
                                   ![p].geometry = r.geometry,
                                   ![p].wstyle = QtInitialStyle]
           /\ file' = IF r.saved THEN SaveState(r.state) ELSE file
           /\ writer' = IF r.saved THEN p ELSE 0
    /\ shown' = shown \cup {p}
    /\ UNCHANGED <<closeq, hkOwner, takenOver>>
    /\ LifeFrame

\* main(): register_hotkeys(hwnd), the event filter, aboutToQuit, app.exec();
\* the message loop starts with the call __init__ queued through
\* QTimer.singleShot(0, self._apply_click_through).  (found, didDelete and
\* fileAtCreate record the startup for the properties below; nothing reads
\* them once the loop runs.)
RegisterStep(p) ==
    /\ inst[p].pc = "register"
    /\ hkOwner' = RegisterHotkeysOwners(hkOwner, p)
    /\ inst' = [inst EXCEPT ![p].pc = "running",
                            ![p].found = FALSE, ![p].didDelete = FALSE,
                            ![p].fileAtCreate = FileMissing,
                            ![p].hkFailed = RegisterHotkeysFailed(hkOwner),
                            ![p].wstyle = ApplyClickThrough(@, inst[p].click)]
    /\ writer' = 0
    /\ UNCHANGED <<file, shown, closeq, takenOver>>
    /\ LifeFrame

\* Sticky.closeEvent on a posted WM_CLOSE: hide() and event.ignore().
HandleClose(p) ==
    /\ inst[p].pc = "running"
    /\ p \in closeq
    /\ closeq' = closeq \ {p}
    /\ shown' = shown \ {p}
    /\ inst' = [q \in Procs |->
                  IF inst[q].pc = "poll" /\ p \in inst[q].posted
                  THEN [inst[q] EXCEPT !.responded = TRUE]
                  ELSE inst[q]]
    /\ writer' = 0
    /\ UNCHANGED <<file, hkOwner, takenOver>>
    /\ LifeFrame

\* Sticky.toggle_click_through: flip, _apply_click_through, _save_state.
ToggleClickThrough(p) ==
    LET c  == ~inst[p].click
        st == SaveStateRecord(inst[p], c)
    IN  /\ inst' = [inst EXCEPT ![p].click = c,
                                ![p].wstyle = ApplyClickThrough(@, c),
                                ![p].state = st]
        /\ file' = SaveState(st)
        /\ writer' = p
        /\ UNCHANGED <<shown, closeq, hkOwner, takenOver>>

\* Sticky._toggle_visibility: hide when visible, else show.
ToggleVisibility(p) ==
    /\ shown' = IF p \in shown THEN shown \ {p} ELSE shown \cup {p}
    /\ writer' = 0
    /\ UNCHANGED <<file, inst, closeq, hkOwner, takenOver>>

\* WM_HOTKEY reaches the process that owns the id; on_hotkey dispatches it.
\* (The ids that edit, move and fade the note are not pressed here.)
HotkeyEvent(k) ==
    /\ k \in {HK_CLICK, HK_MINIMIZE}
    /\ hkOwner[k] \in Procs
    /\ inst[hkOwner[k]].pc = "running"
    /\ IF k = HK_CLICK
       THEN ToggleClickThrough(hkOwner[k])
       ELSE ToggleVisibility(hkOwner[k])
    /\ LifeFrame

\* Context menu > Toggle Click-Through: the window takes the right click
\* only when it is visible and not click-through.
MenuToggle(p) ==
    /\ inst[p].pc = "running"
    /\ p \in shown
    /\ ~inst[p].click
    /\ ToggleClickThrough(p)
    /\ LifeFrame

\* Tray menu > Show/Hide, or a double click on the tray icon.
TrayShowHide(p) ==
    /\ inst[p].pc = "running"
    /\ ToggleVisibility(p)
    /\ LifeFrame

\* Tray menu > Quit or context menu > Exit: QApplication.quit(), aboutToQuit
\* runs cleanup(), the process ends and its objects are gone.
Quit(p) ==
    /\ inst[p].pc = "running"
    /\ hkOwner' = UnregisterHotkeys(hkOwner, p)
    /\ inst' = [inst EXCEPT ![p] = [NoInst EXCEPT !.pc = "exited"]]
    /\ shown' = shown \ {p}
    /\ closeq' = closeq \ {p}
    /\ writer' = 0
    /\ UNCHANGED <<file, takenOver>>
    /\ LifeFrame

Next ==
    \/ \E p \in Procs : Launch(p)
    \/ \E p \in Procs : PollCheck(p)
    \/ \E p \in Procs : PollTimeout(p)
    \/ \E p \in Procs : DeleteStep(p)
    \/ \E p \in Procs : Create(p)
    \/ \E p \in Procs : RegisterStep(p)
    \/ \E p \in Procs : HandleClose(p)
    \/ \E k \in HotkeyIds : HotkeyEvent(k)
    \/ \E p \in Procs : MenuToggle(p)
    \/ \E p \in Procs : TrayShowHide(p)
    \/ \E p \in Procs : Quit(p)

Spec == LifeInit /\ [][Next]_vars

\* The processes that may issue save_state or delete_state from here on.
CanWrite(p) == inst[p].pc \in {"delete", "create", "running"}

\* C1: once a launch has finished its startup eviction at most one copy of
\* the application is running, and no instance that was sent the close
\* request is still running.
C1_Singleton ==
    (\A p \in Procs : inst[p].pc # "poll") =>
        /\ Cardinality({ q \in Procs : Running(q) }) <= 1
        /\ \A q \in takenOver : ~Running(q)

\* C2: a startup whose eviction returned true deletes the persisted state
\* and constructs the new instance with start_fresh and exactly the default
\* record; a startup that found no prior instance deletes nothing and loads
\* what the file holds.
C2_StartupReset ==
    \A p \in Procs :
        inst[p].pc = "register" =>
            IF inst[p].found
            THEN /\ inst[p].didDelete
                 /\ inst[p].start_fresh
                 /\ inst[p].state = DEFAULT_STATE
            ELSE /\ ~inst[p].didDelete
                 /\ inst[p].fileAtCreate.kind = "json" =>
                      /\ ~inst[p].start_fresh
                      /\ \A k \in {"text", "click_through", "opacity", "theme"} :
                           JsonDumpsValue(inst[p].state[k]) = inst[p].fileAtCreate.doc.o[k]

\* C3: evictByTitle returns false without posting anything when no visible
\* window has the exact title; it never posts to a window whose title only
\* contains the title; and when exactly one visible window has the title and
\* answers the close request before the timeout, it returns true with no
\* visible window of that title left at the moment it returns.
C3_EvictByTitle ==
    \A p \in Procs :
        /\ (inst[p].pc \in {"poll", "delete"} \/ (inst[p].pc = "create" /\ ~inst[p].didDelete)) =>
             /\ inst[p].enum0 = {} <=> (inst[p].pc = "create" /\ ~inst[p].found)
             /\ inst[p].enum0 = {} => inst[p].posted = {}
             /\ \A h \in inst[p].posted : Title(h) = APP_NAME
        /\ (inst[p].pc = "delete" /\ Cardinality(inst[p].enum0) = 1 /\ inst[p].responded) =>
             /\ inst[p].found
             /\ inst[p].leftAtReturn = {}

\* C4: at every moment at most one process can write or delete the state
\* file, and an instance that a newer launch has taken over never writes it
\* again.
C4_NoConcurrentWriters ==
    /\ Cardinality({ p \in Procs : CanWrite(p) }) <= 1
    /\ writer \in Procs => writer \notin takenOver

(***************************************************************************)
(* SpecUI: one instance after main() has shown its window, and the         *)
(* handlers the user can reach from the keyboard, the mouse, the context   *)
(* menu, the tray and the settings dialog.                                 *)
(***************************************************************************)
MaxActions == 3

\* Monitors as <<geometry(), availableGeometry()>>: a full-HD screen, and a
\* full-HD screen at 500% scaling with an 8px bar along the top.
UiLayouts ==
    { << <<QRect(0, 0, 1920, 1080), QRect(0, 0, 1920, 1080)>> >>,
      << <<QRect(0, 0, 384, 216),   QRect(0, 8, 384, 208)>> >> }

\* The file the launch finds: none, or the one an earlier session left.
UiFiles ==
    { FileMissing,
      SaveState([DEFAULT_STATE EXCEPT !.text = PyStr("memo"), !.x = PyInt(20),
                                      !.y = PyInt(60), !.click_through = PyBool(TRUE)]) }

\* main(), lines 713-715: Sticky(start_fresh) and show(), on the monitors of
\* layout with the file f at STATE_PATH.
NewSticky(f, avs) ==
    LET fresh == f.kind = "missing"
        st0   == IF fresh THEN DEFAULT_STATE ELSE LoadState(f, DEFAULT_STATE).rec
        r     == ApplyInitialGeometrySafe(st0, avs)
    IN  [ obj |-> [ pc |-> "shown", state |-> r.state,
                    click |-> (st0.click_through.n = 1), opacity |-> st0.opacity.n,
                    label |-> st0.text.s, editor |-> st0.text.s,
                    is_editing |-> FALSE, drag_origin |-> NoDrag,
                    geometry |-> r.geometry, wstyle |-> QtInitialStyle,
                    visible |-> TRUE, window_opacity |-> st0.opacity.n ],
          saved |-> r.saved ]

UiInit ==
    /\ \E layout \in UiLayouts, f \in UiFiles :
         LET geos == [i \in 1..Len(layout) |-> layout[i][1]]
             avs  == [i \in 1..Len(layout) |-> layout[i][2]]
             n    == NewSticky(f, avs)
         IN  /\ screen_geometry = geos
             /\ screens = avs
             /\ sticky = n.obj
             /\ file = IF n.saved THEN SaveState(n.obj.state) ELSE f
             /\ lastSaved = IF n.saved THEN [valid |-> TRUE, rec |-> n.obj.state] ELSE NoSaved
    /\ act = NoAct
    /\ nact = 0
    /\ default_state = DEFAULT_STATE
    /\ ret = [rec |-> EmptyDict, alias |-> FALSE, raised |-> FALSE]
    /\ op = NoOp("init")
    /\ gstate = DEFAULT_STATE /\ geometry = QRect(0, 0, 0, 0) /\ rect0 = QRect(0, 0, 0, 0)
    /\ nwrites = 0 /\ gpc = "idle"
    /\ StyleIdle /\ LifeIdle

UiFrame ==
    UNCHANGED <<default_state, ret, op, styleVars, screens, gstate, geometry, rect0,
                nwrites, gpc, lifeVars, screen_geometry>>

\* The message loop is running and one more handler may run.
UiLoop == sticky.pc \in {"shown", "running"} /\ nact < MaxActions

\* The window takes mouse input: it is visible and the native style does
\* not make it transparent to the mouse.
TakesMouse == sticky.visible /\ BitAnd(sticky.wstyle, WS_EX_TRANSPARENT) = 0

\* save_state(d) called by a handler.
UiSave(d) ==
    /\ file' = SaveState(d)
    /\ lastSaved' = [valid |-> TRUE, rec |-> d]

UiNoSave == UNCHANGED <<file, lastSaved>>

UiAct(name, pos, toggles) ==
    /\ act' = [name |-> name, pos |-> pos, click0 |-> sticky.click, toggles |-> toggles]
    /\ nact' = nact + 1

\* A toggle_click_through that flips the flag and saves but leaves the
\* native style alone.
ToggleObj_NoApply(i) ==
    LET c == ~i.click
    IN  [i EXCEPT !.click = c, !.state = SaveStateRecord(i, c)]

\* Sticky.toggle_click_through applied to the object i.
ToggleObj(i) ==
    LET c == ~i.click
    IN  [i EXCEPT !.click = c, !.wstyle = ApplyClickThrough(@, c),
                  !.state = SaveStateRecord(i, c)]

\* The call queued by QTimer.singleShot(0, self._apply_click_through).
UiDeferredApply ==
    /\ sticky.pc = "shown"
    /\ sticky' = [sticky EXCEPT !.pc = "running",
                                !.wstyle = ApplyClickThrough(@, sticky.click)]
    /\ UNCHANGED <<act, nact>>
    /\ UiNoSave
    /\ UiFrame

\* Ctrl+Alt+Space, or context menu > Toggle Click-Through.
UiToggleClickThrough ==
    /\ UiLoop
    /\ sticky' = ToggleObj(sticky)
    /\ UiSave(sticky'.state)
    /\ UiAct("toggle_click_through", <<0, 0>>, 1)
    /\ UiFrame

\* Ctrl+Shift+Alt+Up/Down: adjust_opacity(0.1) and adjust_opacity(-0.1).
UiAdjustOpacity(delta) ==
    /\ UiLoop
    /\ LET new_opacity == NewOpacity(sticky.opacity, delta)
       IN  IF new_opacity # sticky.opacity
           THEN LET i == [sticky EXCEPT !.opacity = new_opacity,
                                        !.window_opacity = new_opacity,
                                        !.state.opacity = PyFloat(new_opacity)]
                IN  /\ sticky' = [i EXCEPT !.state = SaveStateRecord(i, i.click)]
                    /\ UiSave(sticky'.state)
           ELSE /\ UNCHANGED sticky
                /\ UiNoSave
    /\ UiAct("adjust_opacity", <<0, 0>>, 0)
    /\ UiFrame

\* Ctrl+Alt+Arrows: move_window(dx, dy).
UiMoveWindow(dx, dy) ==
    /\ UiLoop
    /\ LET current == sticky.geometry
           p == MoveWindowClamp(current, dx, dy, screen_geometry, screens)
           i == [sticky EXCEPT !.geometry = QRect(p[1], p[2], RectWidth(current), RectHeight(current))]
       IN  /\ sticky' = [i EXCEPT !.state = SaveGeometryRecord(i)]
           /\ UiSave(sticky'.state)
           /\ UiAct("move_window", <<RectLeft(current) + dx, RectTop(current) + dy>>, 0)
    /\ UiFrame

\* mousePressEvent with the left button at offset off inside the window.
UiMousePress(off) ==
    /\ UiLoop
    /\ TakesMouse
    /\ ~sticky.click
    /\ LET tl == <<RectLeft(sticky.geometry), RectTop(sticky.geometry)>>
       IN  sticky' = [sticky EXCEPT !.drag_origin =
                         [set |-> TRUE, cursor |-> <<tl[1] + off[1], tl[2] + off[2]>>, topLeft |-> tl]]
    /\ UiNoSave
    /\ UiAct("mouse_press", <<0, 0>>, 0)
    /\ UiFrame

\* mouseMoveEvent with the cursor at c while a drag is in progress.
UiMouseMove(c) ==
    /\ UiLoop
    /\ sticky.drag_origin.set
    /\ LET d == sticky.drag_origin
           new_pos == <<d.topLeft[1] + (c[1] - d.cursor[1]), d.topLeft[2] + (c[2] - d.cursor[2])>>
           w == RectWidth(sticky.geometry)
           h == RectHeight(sticky.geometry)
           p == MouseMoveClamp(new_pos, w, h, screen_geometry, screens)
       IN  /\ sticky' = [sticky EXCEPT !.geometry = QRect(p[1], p[2], w, h)]
           /\ UiAct("mouse_move", new_pos, 0)
    /\ UiNoSave
    /\ UiFrame

\* mouseReleaseEvent: the drag ends and _save_geometry runs.
UiMouseRelease ==
    /\ UiLoop
    /\ sticky.drag_origin.set
    /\ LET i == [sticky EXCEPT !.drag_origin = NoDrag]
       IN  sticky' = [i EXCEPT !.state = SaveGeometryRecord(i)]
    /\ UiSave(sticky'.state)
    /\ UiAct("mouse_release", <<0, 0>>, 0)
    /\ UiFrame

\* Context menu > Resize > Smaller / Larger: _resize_by(dw, dh).
UiResizeBy(dw, dh) ==
    /\ UiLoop
    /\ TakesMouse
    /\ LET r == ResizeBy(sticky.geometry, dw, dh)
           i == [sticky EXCEPT !.geometry = ApplyOnScreen(r, screen_geometry, screens)]
       IN  /\ sticky' = [i EXCEPT !.state = SaveGeometryRecord(i)]
           /\ UiSave(sticky'.state)
           /\ UiAct("resize_by", <<RectLeft(r), RectTop(r)>>, 0)
    /\ UiFrame

\* Context menu > Resize > Reset Size: _resize_to_default().
UiResizeToDefault ==
    /\ UiLoop
    /\ TakesMouse
    /\ LET r == ResizeToDefault(sticky.geometry)
           i == [sticky EXCEPT !.geometry = ApplyOnScreen(r, screen_geometry, screens)]
       IN  /\ sticky' = [i EXCEPT !.state = SaveGeometryRecord(i)]
           /\ UiSave(sticky'.state)
           /\ UiAct("resize_to_default", <<RectLeft(r), RectTop(r)>>, 0)
    /\ UiFrame

\* Ctrl+Alt+T, context menu > Edit Text or tray > Edit: begin_edit().
UiBeginEdit ==
    /\ UiLoop
    /\ LET i == IF sticky.click THEN ToggleObj(sticky) ELSE sticky
       IN  /\ sticky' = [i EXCEPT !.is_editing = TRUE, !.editor = i.label]
           /\ IF sticky.click THEN UiSave(i.state) ELSE UiNoSave
    /\ UiAct("begin_edit", <<0, 0>>, IF sticky.click THEN 1 ELSE 0)
    /\ UiFrame

\* Ctrl+Return in the editor after the user typed txt: commit_edit().
UiCommitEdit(txt) ==
    /\ UiLoop
    /\ sticky.is_editing
    /\ LET i == [sticky EXCEPT !.editor = txt, !.label = CommitText(txt), !.is_editing = FALSE]
       IN  sticky' = [i EXCEPT !.state = SaveStateRecord(i, i.click)]
    /\ UiSave(sticky'.state)
    /\ UiAct("commit_edit", <<0, 0>>, 0)
    /\ UiFrame

\* Escape in the editor after the user typed txt: cancel_edit().
UiCancelEdit(txt) ==
    /\ UiLoop
    /\ sticky.is_editing
    /\ sticky' = [sticky EXCEPT !.editor = txt, !.is_editing = FALSE]
    /\ UiNoSave
    /\ UiAct("cancel_edit", <<0, 0>>, 0)
    /\ UiFrame

\* Context menu > Clear Text.
UiClearText ==
    /\ UiLoop
    /\ TakesMouse
    /\ LET i == [sticky EXCEPT !.label = "Active task"]
       IN  sticky' = [i EXCEPT !.state = SaveStateRecord(i, i.click)]
    /\ UiSave(sticky'.state)
    /\ UiAct("clear_text", <<0, 0>>, 0)
    /\ UiFrame

\* Context menu > Theme > theme_name: _change_theme(theme_name).
UiChangeTheme(theme_name) ==
    /\ UiLoop
    /\ TakesMouse
    /\ LET i == [sticky EXCEPT !.state.theme = PyStr(theme_name)]
       IN  sticky' = [i EXCEPT !.state = SaveStateRecord(i, i.click)]
    /\ UiSave(sticky'.state)
    /\ UiAct("change_theme", <<0, 0>>, 0)
    /\ UiFrame

\* Context menu > Settings..., the opacity slider moved to v and the theme
\* set to th, then OK: state.update(get_settings()), _apply_settings(),
\* _save_state().
UiSettingsAccepted(v, th) ==
    /\ UiLoop
    /\ TakesMouse
    /\ LET i == [sticky EXCEPT !.state.opacity = PyFloat(v),
                               !.state.theme = PyStr(th),
                               !.state.font_pt = PyFloat((sticky.state.font_pt.n \div 100) * 100),
                               !.opacity = v, !.window_opacity = v]
       IN  sticky' = [i EXCEPT !.state = SaveStateRecord(i, i.click)]
    /\ UiSave(sticky'.state)
    /\ UiAct("settings_accepted", <<0, 0>>, 0)
    /\ UiFrame

\* Context menu > Settings..., the slider moved, then Cancel:
\* setWindowOpacity(self._opacity).
UiSettingsRejected ==
    /\ UiLoop
    /\ TakesMouse
    /\ sticky' = [sticky EXCEPT !.window_opacity = sticky.opacity]
    /\ UiNoSave
    /\ UiAct("settings_rejected", <<0, 0>>, 0)
    /\ UiFrame

\* Ctrl+Alt+M, tray > Show/Hide or a double click on the tray icon.
UiToggleVisibility ==
    /\ UiLoop
    /\ sticky' = [sticky EXCEPT !.visible = ~sticky.visible]
    /\ UiNoSave
    /\ UiAct("toggle_visibility", <<0, 0>>, 0)
    /\ UiFrame

\* The inputs of the handlers.
MoveSteps == { <<-10, 0>>, <<10, 0>>, <<0, -10>>, <<0, 10>> }
ResizeSteps == { <<-50, -30>>, <<50, 30>> }
PressOffsets == { <<10, 10>> }
UiCursors == { <<1910, 1010>>, <<5, 5>>, <<200, 100>> }
EditorTexts == { "   ", " memo " }
UiThemes == { "light" }
UiSettings == { <<20, "blue">> }

UiNext ==
    \/ UiDeferredApply
    \/ UiToggleClickThrough
    \/ \E d \in {10, -10} : UiAdjustOpacity(d)
    \/ \E m \in MoveSteps : UiMoveWindow(m[1], m[2])
    \/ \E o \in PressOffsets : UiMousePress(o)
    \/ \E c \in UiCursors : UiMouseMove(c)
    \/ UiMouseRelease
    \/ \E r \in ResizeSteps : UiResizeBy(r[1], r[2])
    \/ UiResizeToDefault
    \/ UiBeginEdit
    \/ \E t \in EditorTexts : UiCommitEdit(t)
    \/ \E t \in EditorTexts : UiCancelEdit(t)
    \/ UiClearText
    \/ \E th \in UiThemes : UiChangeTheme(th)
    \/ \E s \in UiSettings : UiSettingsAccepted(s[1], s[2])
    \/ UiSettingsRejected
    \/ UiToggleVisibility

SpecUI == UiInit /\ [][UiNext]_vars

\* The handlers that end by clamping the window to a work-area.
ClampActs == {"mouse_move", "move_window", "resize_by", "resize_to_default"}

\* C11: after a drag step, a move_window or a programmatic resize whose
\* computed top-left point lies inside a work-area (X,Y,W,H), the window has
\* left >= X, top >= Y and its right and bottom edges inside the work-area,
\* and when the computed rectangle would pass the right (bottom) edge the
\* window is flush with it: left = X+W-w (top = Y+H-h); when no monitor
\* contains the point the window is at the computed point.
C11_ClampFlush ==
    act.name \in ClampActs =>
        LET g == sticky.geometry
            w == RectWidth(g)
            h == RectHeight(g)
        IN  /\ \A i \in 1..Len(screens) :
                 RectContainsPoint(screens[i], act.pos) =>
                     LET X == screens[i].x1
                         Y == screens[i].y1
                         W == screens[i].x2 - screens[i].x1 + 1
                         H == screens[i].y2 - screens[i].y1 + 1
                     IN  /\ g.x1 >= X /\ g.y1 >= Y
                         /\ g.x2 <= X + W - 1 /\ g.y2 <= Y + H - 1
                         /\ act.pos[1] + w > X + W => g.x1 = X + W - w
                         /\ act.pos[2] + h > Y + H => g.y1 = Y + H - h
            /\ (\A i \in 1..Len(screen_geometry) : ~RectContainsPoint(screen_geometry[i], act.pos)) =>
                 <<g.x1, g.y1>> = act.pos

\* The live values of the window: x, y, w, h, the label text, _click_through
\* and _opacity.
Live(i) ==
    << RectLeft(i.geometry), RectTop(i.geometry), RectWidth(i.geometry), RectHeight(i.geometry),
       i.label, i.click, i.opacity >>

\* The same values as a saved record holds them.
Persisted(d) ==
    << d.x.n, d.y.n, d.w.n, d.h.n, d.text.s, d.click_through.n = 1, d.opacity.n >>

\* The handlers that always end with a save.
SaveActs ==
    { "toggle_click_through", "move_window", "mouse_release", "resize_by",
      "resize_to_default", "commit_edit", "clear_text", "change_theme",
      "settings_accepted" }

SavedIsLive ==
    /\ lastSaved.valid
    /\ Persisted(lastSaved.rec) = Live(sticky)
    /\ lastSaved.rec = sticky.state
    /\ file = SaveState(lastSaved.rec)

\* C12: once a handler that changes click-through, opacity, position, size
\* or text has completed, the record last passed to save_state equals the
\* live values (a drag completes at the release); cancel_edit, a rejected
\* settings dialog and adjust_opacity at its bound change no live value and
\* leave the persisted record as it was.
C12_EveryChangeSaved ==
    /\ [](act.name \in SaveActs => SavedIsLive)
    /\ []((lastSaved.valid /\ ~sticky.drag_origin.set) => Persisted(lastSaved.rec) = Live(sticky))
    /\ [][ (Live(sticky') # Live(sticky) /\ act'.name # "mouse_move") => SavedIsLive' ]_vars
    /\ [][ (nact' # nact /\ (\/ act'.name \in {"cancel_edit", "settings_rejected"}
                             \/ act'.name = "adjust_opacity" /\ sticky'.opacity = sticky.opacity)) =>
               /\ Live(sticky') = Live(sticky)
               /\ UNCHANGED <<file, lastSaved>> ]_vars

\* A drag that ended at the right and bottom edges has been released and
\* the saved record holds the place the window was dropped at.
C12_Witness ==
    /\ act.name = "mouse_release"
    /\ RectLeft(sticky.geometry) = 1569
    /\ RectTop(sticky.geometry) = 959
    /\ lastSaved.valid
    /\ lastSaved.rec.x = PyInt(1569)
    /\ lastSaved.rec.y = PyInt(959)
    /\ file = SaveState(lastSaved.rec)

\* The click_through a load of the file at STATE_PATH would give.
PersistedClickThrough == LoadState(file, DEFAULT_STATE).rec.click_through.n = 1

\* The native style makes the window click-through.
StyleClickThrough(style) ==
    HasFlag(style, WS_EX_TRANSPARENT) /\ HasFlag(style, WS_EX_NOACTIVATE)

StyleNotClickThrough(style) ==
    ~HasFlag(style, WS_EX_TRANSPARENT) /\ ~HasFlag(style, WS_EX_NOACTIVATE)

\* C16: once the deferred initial _apply_click_through has run, after any
\* sequence of handlers the flag _click_through, the click_through of the
\* in-memory and the persisted state and the native style (TRANSPARENT and
\* NOACTIVATE set iff the flag) agree; begin_edit always leaves click-through
\* disabled: it toggles it off once (style cleared, state saved) when it was
\* on and touches neither flag, style nor file when it was off.
C16_ClickThroughConsistent ==
    /\ [](sticky.pc = "running" =>
            /\ sticky.state.click_through = PyBool(sticky.click)
            /\ PersistedClickThrough = sticky.click
            /\ IF sticky.click THEN StyleClickThrough(sticky.wstyle)
                               ELSE StyleNotClickThrough(sticky.wstyle))
    /\ [](act.name = "begin_edit" =>
            /\ ~sticky.click
            /\ StyleNotClickThrough(sticky.wstyle)
            /\ act.toggles = IF act.click0 THEN 1 ELSE 0)
    /\ [][ (nact' # nact /\ act'.name = "begin_edit") =>
               IF sticky.click
               THEN /\ ~sticky'.click
                    /\ lastSaved'.valid
                    /\ lastSaved'.rec.click_through = PyBool(FALSE)
                    /\ file' = SaveState(lastSaved'.rec)
               ELSE /\ sticky'.click = sticky.click
                    /\ sticky'.wstyle = sticky.wstyle
                    /\ UNCHANGED <<file, lastSaved>> ]_vars

\* An instance loaded with click-through on has applied it, and begin_edit
\* has then switched it off.
C16_Witness ==
    /\ sticky.pc = "running"
    /\ act.name = "begin_edit"
    /\ act.click0
    /\ ~sticky.click
    /\ sticky.is_editing
    /\ StyleNotClickThrough(sticky.wstyle)
    /\ ~PersistedClickThrough

(***************************************************************************)
(* SpecHotkeys: one launch of main() on a desktop where other programs     *)
(* already own some of the nine key combinations.                          *)
(***************************************************************************)
\* The process that is launched.
HkProc == CHOOSE p \in Procs : \A q \in Procs : p <= q

\* The combinations another program registers or releases while the
\* instance runs.
ForeignKeys == {HK_EDIT, HK_OPACITY_DOWN}

HkInit ==
    /\ file \in LifeFiles
    /\ screens = <<QRect(0, 0, 1920, 1080)>>
    /\ inst = [p \in Procs |-> NoInst]
    /\ shown = ForeignWindows
    /\ closeq = {}
    /\ hkOwner \in [HotkeyIds -> {0, -1}]
    /\ takenOver = {}
    /\ writer = 0
    /\ gstate = DEFAULT_STATE /\ geometry = QRect(0, 0, 0, 0) /\ rect0 = QRect(0, 0, 0, 0)
    /\ nwrites = 0 /\ gpc = "idle"
    /\ StoreIdle /\ StyleIdle /\ UiIdle

\* Another program calls RegisterHotKey for a combination nobody owns.
ForeignRegister(k) ==
    /\ hkOwner[k] = 0
    /\ hkOwner' = [hkOwner EXCEPT ![k] = -1]
    /\ writer' = 0
    /\ UNCHANGED <<file, inst, shown, closeq, takenOver>>
    /\ LifeFrame

\* Another program releases a combination it owns.
ForeignUnregister(k) ==
    /\ hkOwner[k] = -1
    /\ hkOwner' = [hkOwner EXCEPT ![k] = 0]
    /\ writer' = 0
    /\ UNCHANGED <<file, inst, shown, closeq, takenOver>>
    /\ LifeFrame

\* Context menu > Exit: the window takes the right click only when it is
\* visible and not click-through.
MenuExit(p) ==
    /\ p \in shown
    /\ ~inst[p].click
    /\ Quit(p)

\* Tray menu > Quit.
TrayQuit(p) == Quit(p)

HkNext ==
    \/ Launch(HkProc)
    \/ Create(HkProc)
    \/ RegisterStep(HkProc)
    \/ \E k \in HotkeyIds : HotkeyEvent(k)
    \/ MenuToggle(HkProc)
    \/ TrayShowHide(HkProc)
    \/ \E k \in ForeignKeys : ForeignRegister(k)
    \/ \E k \in ForeignKeys : ForeignUnregister(k)
    \/ MenuExit(HkProc)
    \/ TrayQuit(HkProc)

SpecHotkeys == HkInit /\ [][HkNext]_vars

\* The ids process p owns.
OwnedBy(p) == { k \in HotkeyIds : hkOwner[k] = p }

\* C13: whatever subset of the nine bindings other programs own,
\* register_hotkeys registers every binding that is free, leaves the owned
\* ones with their owner and reports exactly those; the step never fails
\* and main() goes on to install the dispatch callback and run the message
\* loop.
C13_PartialRegistration ==
    /\ [][ \A p \in Procs :
             (inst[p].pc = "register" /\ inst'[p].pc # "register") =>
                 /\ inst'[p].pc = "running"
                 /\ \A k \in HotkeyIds :
                      IF hkOwner[k] = 0
                      THEN hkOwner'[k] = p /\ k \notin inst'[p].hkFailed
                      ELSE hkOwner'[k] = hkOwner[k] /\ k \in inst'[p].hkFailed ]_vars
    /\ [](\A p \in Procs : inst[p].pc = "running" =>
             inst[p].hkFailed \cup OwnedBy(p) = HotkeyIds)

\* The instance runs with EDIT and UP refused and the other seven ids
\* registered, and a Ctrl+Alt+Space has been dispatched to it.
C13_Witness ==
    /\ inst[HkProc].pc = "running"
    /\ inst[HkProc].hkFailed = {HK_EDIT, HK_UP}
    /\ OwnedBy(HkProc) = HotkeyIds \ {HK_EDIT, HK_UP}
    /\ hkOwner[HK_UP] = -1
    /\ writer = HkProc
    /\ inst[HkProc].click

\* C14: when an instance stops through menu Exit or tray Quit every id it
\* owns is released before it has exited, the ids whose registration had
\* failed stay with their owner, and so no id is ever owned by an instance
\* that has shut down; a running instance owns exactly the ids it
\* registered.
C14_ReleasedOnShutdown ==
    /\ [](\A k \in HotkeyIds : hkOwner[k] \in Procs => inst[hkOwner[k]].pc = "running")
    /\ [](\A p \in Procs : inst[p].pc = "running" => OwnedBy(p) = HotkeyIds \ inst[p].hkFailed)
    /\ [][ \A p \in Procs :
             (inst[p].pc = "running" /\ inst'[p].pc # "running") =>
                 /\ inst'[p].pc = "exited"
                 /\ OwnedBy(p)' = {}
                 /\ \A k \in HotkeyIds : hkOwner[k] # p => hkOwner'[k] = hkOwner[k] ]_vars

\* The instance has exited; it had registered some ids and been refused
\* others, and the refused ones are still with the other program.
C14_Witness ==
    /\ inst[HkProc].pc = "exited"
    /\ OwnedBy(HkProc) = {}
    /\ { k \in HotkeyIds : hkOwner[k] = -1 } = {HK_CLICK, HK_MINIMIZE}
    /\ { k \in HotkeyIds : hkOwner[k] = 0 } = HotkeyIds \ {HK_CLICK, HK_MINIMIZE}

(***************************************************************************)
(* SpecPoll: a running instance and one launch against it, with the        *)
(* launch's poll loop running on: a process that is inside                 *)
(* close_existing_instance_by_title keeps executing it.                    *)
(***************************************************************************)
\* The instance that is running first and the one launched against it.
PollProcs == { p \in Procs : p <= 2 }

PollNext ==
    \/ \E p \in PollProcs : Launch(p)
    \/ \E p \in PollProcs : PollCheck(p)
    \/ \E p \in PollProcs : PollTimeout(p)
    \/ \E p \in PollProcs : DeleteStep(p)
    \/ \E p \in PollProcs : Create(p)
    \/ \E p \in PollProcs : RegisterStep(p)
    \/ \E p \in PollProcs : HandleClose(p)
    \/ \E k \in HotkeyIds : HotkeyEvent(k)
    \/ \E p \in PollProcs : MenuToggle(p)
    \/ \E p \in PollProcs : TrayShowHide(p)
    \/ \E p \in PollProcs : Quit(p)

SpecPoll ==
    /\ LifeInit
    /\ [][PollNext]_vars
    /\ \A p \in PollProcs : WF_vars(PollCheck(p)) /\ WF_vars(PollTimeout(p))

\* Process p has just executed a step of its poll loop.
PollStep(p) ==
    /\ inst[p].pc = "poll"
    /\ inst'[p].polls # inst[p].polls \/ inst'[p].pc # "poll"

\* C15: a launch that found a matching window always leaves the poll loop,
\* after at most MaxPolls enumerations (wait_ms in 50 ms steps), and returns
\* true whether or not the window has gone; it sleeps again only after an
\* enumeration that found a match and leaves at the first one that finds
\* none.
C15_PollBounded ==
    /\ \A p \in Procs : (inst[p].pc = "poll") ~> (inst[p].pc = "delete" /\ inst[p].found)
    /\ [](\A p \in Procs : inst[p].pc = "poll" =>
             /\ inst[p].posted # {}
             /\ inst[p].polls \in 0..MaxPolls)
    /\ [][ \A p \in Procs :
             PollStep(p) =>
                 IF StillThere(shown, APP_NAME) /\ inst[p].polls > 0
                 THEN inst'[p].pc = "poll" /\ inst'[p].polls = inst[p].polls - 1
                 ELSE inst'[p].pc = "delete" /\ inst'[p].found ]_vars

\* The poll ran out with the window still on screen, and the function has
\* returned true all the same.
C15_Witness ==
    \E p \in Procs :
        /\ inst[p].pc = "delete"
        /\ inst[p].found
        /\ inst[p].polls = 0
        /\ inst[p].leftAtReturn # {}

====
